---- MODULE Spec2Model ----
(***************************************************************************)
(* Model of jobs_scraper.py: the text heuristics (normalize_text,          *)
(* parse_experience_text, experience_matches, location_matches,            *)
(* text_contains_keywords), the three scrapers, collect_jobs, filter_jobs  *)
(* and main.                                                               *)
(*                                                                         *)
(* A text is a sequence of tokens.  A token is a maximal piece of a Python *)
(* string that the program's regular expressions and substring tests treat *)
(* as a unit: one decimal digit, one whitespace character, one punctuation *)
(* character, or one word.                                                 *)
(***************************************************************************)
EXTENDS Integers, Sequences, FiniteSets, TLC

VARIABLES
    pc,         \* position of the running function
    text,       \* argument of parse_experience_text
    exp,        \* its result <<min_years, max_years>>
    min_y,      \* arguments of experience_matches
    max_y,
    ok,         \* its result
    npieces,    \* number of pieces of text so far
    raw_jobs,   \* argument of filter_jobs (result of collect_jobs)
    input0,     \* raw_jobs as it was when filter_jobs was called
    i,          \* position of the running for loop
    filtered,   \* the list filter_jobs builds
    inv,        \* number of the adapter invocation collect_jobs is at
    results,    \* the list the running adapter invocation builds
    seen,       \* scrape_wellfound's set of links
    ncards,     \* anchors the running invocation has iterated over
    failed,     \* the running invocation has caught an exception
    slept,      \* the running invocation has paused after its network call
    calls,      \* network calls the running invocation has issued
    allfailed,  \* every invocation so far has caught an exception
    jobs,       \* collect_jobs' list of all adapter records
    uniq,       \* collect_jobs' dict, as its (key, record) items in order
    html_body,  \* result of build_email_html
    renders,    \* number of calls of build_email_html
    creds,      \* GMAIL_USER and GMAIL_APP_PASSWORD are both set
    sent,       \* the mail was handed to the SMTP server
    file        \* content of jobs_output.html

textVars   == <<text, exp, npieces>>
rangeVars  == <<min_y, max_y, ok>>
filterVars == <<raw_jobs, input0, i, filtered>>

scrapeVars == <<inv, results, seen, ncards, failed, slept, calls, allfailed, jobs>>
mailVars   == <<html_body, renders, creds, sent, file>>

vars == <<pc, textVars, rangeVars, filterVars, scrapeVars, uniq, mailVars>>

\* what a step of a scraper, of the mail part of main, of the dedup loop and
\* of filter_jobs leaves alone
notScrape == <<textVars, rangeVars, filterVars, uniq, mailVars>>
notMail   == <<textVars, rangeVars, filterVars, scrapeVars, uniq>>
notDedup  == <<textVars, rangeVars, mailVars>>
notFilter == <<textVars, rangeVars>>

----------------------------------------------------------------------------
(* Python values *)

\* None where an integer is expected (parsed years are never negative)
NoneY == -1

\* None where a string is expected; no page text holds this token
None == <<"<None>">>

\* Python truthiness of an optional string
Truthy(s) == s # None /\ s # <<>>

\* a or b
Or(a, b) == IF Truthy(a) THEN a ELSE b

----------------------------------------------------------------------------
(* Tokens *)

DigitVal == [d \in {"0", "1", "2", "3", "4", "5", "6", "7", "8", "9"} |->
               CASE d = "0" -> 0 [] d = "1" -> 1 [] d = "2" -> 2 [] d = "3" -> 3
                 [] d = "4" -> 4 [] d = "5" -> 5 [] d = "6" -> 6 [] d = "7" -> 7
                 [] d = "8" -> 8 [] d = "9" -> 9]

IsDigit(t) == t \in DOMAIN DigitVal

\* characters str.split() and the regex class \s treat as whitespace
IsSpace(t) == t \in {" ", "\n", "\t"}

\* str.lower() on the words of the model that hold upper-case letters
LowerTable == [t \in {"Years", "YEARS", "Year", "Minimum", "Of", "Remote", "REMOTE",
                      "India", "Indiana", "DevOps", "Cloud", "SRE", "Platform",
                      "Engineer", "Engineers", "New", "York", "Site", "Reliability",
                      "AWS", "Azure", "Kubernetes", "Infrastructure", "Accountant",
                      "Chef", "Acme"} |->
    CASE t = "Years" -> "years" [] t = "YEARS" -> "years" [] t = "Year" -> "year"
      [] t = "Minimum" -> "minimum" [] t = "Of" -> "of"
      [] t = "Remote" -> "remote" [] t = "REMOTE" -> "remote"
      [] t = "India" -> "india" [] t = "Indiana" -> "indiana"
      [] t = "DevOps" -> "devops" [] t = "Cloud" -> "cloud" [] t = "SRE" -> "sre"
      [] t = "Platform" -> "platform" [] t = "Engineer" -> "engineer"
      [] t = "Engineers" -> "engineers"
      [] t = "New" -> "new" [] t = "York" -> "york" [] t = "Site" -> "site"
      [] t = "Reliability" -> "reliability" [] t = "AWS" -> "aws"
      [] t = "Azure" -> "azure" [] t = "Kubernetes" -> "kubernetes"
      [] t = "Infrastructure" -> "infrastructure" [] t = "Accountant" -> "accountant"
      [] t = "Chef" -> "chef" [] t = "Acme" -> "acme"]

LowerTok(t) == IF t \in DOMAIN LowerTable THEN LowerTable[t] ELSE t

RECURSIVE Lower(_)
\* s.lower()
Lower(s) == IF s = <<>> THEN <<>> ELSE <<LowerTok(Head(s))>> \o Lower(Tail(s))

----------------------------------------------------------------------------
(* normalize_text *)

RECURSIVE SplitFrom(_, _, _)
\* the words of s after the words in parts, word being the run of
\* non-whitespace tokens read so far
SplitFrom(s, word, parts) ==
    IF s = <<>> THEN (IF word = <<>> THEN parts ELSE Append(parts, word))
    ELSE IF IsSpace(Head(s))
         THEN SplitFrom(Tail(s), <<>>, IF word = <<>> THEN parts ELSE Append(parts, word))
         ELSE SplitFrom(Tail(s), Append(word, Head(s)), parts)

\* t.split(): the maximal runs of non-whitespace tokens, in order
Split(s) == SplitFrom(s, <<>>, <<>>)

RECURSIVE Join(_)
\* " ".join(parts)
Join(parts) ==
    IF parts = <<>> THEN <<>>
    ELSE IF Len(parts) = 1 THEN Head(parts)
    ELSE Head(parts) \o <<" ">> \o Join(Tail(parts))

normalize_text(t) == IF Truthy(t) THEN Join(Split(t)) ELSE <<>>

----------------------------------------------------------------------------
(* parse_experience_text *)

\* the character class [-...] of the range pattern, on the tokens of the model
IsDash(t) == t = "-"

\* the literal year of years? : a word that starts with it
IsYear(t) == t \in {"year", "years"}

At(s, p) == IF p \in 1..Len(s) THEN s[p] ELSE "<end>"

RECURSIVE SkipSpace(_, _)
\* \s* from position p: the position after the whitespace run (the run is
\* followed by a non-whitespace pattern element, so only the whole run matches)
SkipSpace(s, p) == IF IsSpace(At(s, p)) THEN SkipSpace(s, p + 1) ELSE p

\* (\d{1,2}) taking n digits from position p
DigitsAt(s, p, n) == \A k \in p..(p + n - 1) : IsDigit(At(s, k))

\* int(m.group(k)) of n digits from position p
IntAt(s, p, n) == IF n = 2 THEN 10 * DigitVal[s[p]] + DigitVal[s[p + 1]]
                  ELSE DigitVal[s[p]]

\* the greedy order in which \d{1,2} tries its lengths
Greedy == <<2, 1>>

NoMatch == <<>>

\* (\d{1,2})\s*years? at p taking n digits
YearsTail(s, p, n) == DigitsAt(s, p, n) /\ IsYear(At(s, SkipSpace(s, p + n)))

\* (\d{1,2})\s*years? at p: the captured number, or NoMatch
MatchYearsAt(s, p) ==
    IF YearsTail(s, p, Greedy[1]) THEN <<IntAt(s, p, Greedy[1])>>
    ELSE IF YearsTail(s, p, Greedy[2]) THEN <<IntAt(s, p, Greedy[2])>>
    ELSE NoMatch

\* (\d{1,2})\s*[-]\s*(\d{1,2})\s*years? at p taking n digits for group 1
RangeTail(s, p, n) ==
    IF DigitsAt(s, p, n) /\ IsDash(At(s, SkipSpace(s, p + n)))
    THEN MatchYearsAt(s, SkipSpace(s, SkipSpace(s, p + n) + 1))
    ELSE NoMatch

MatchRangeAt(s, p) ==
    IF RangeTail(s, p, Greedy[1]) # NoMatch
    THEN <<IntAt(s, p, Greedy[1])>> \o RangeTail(s, p, Greedy[1])
    ELSE IF RangeTail(s, p, Greedy[2]) # NoMatch
    THEN <<IntAt(s, p, Greedy[2])>> \o RangeTail(s, p, Greedy[2])
    ELSE NoMatch

\* (\d{1,2})\s*\+\s*years? at p taking n digits
PlusTail(s, p, n) ==
    /\ DigitsAt(s, p, n)
    /\ At(s, SkipSpace(s, p + n)) = "+"
    /\ IsYear(At(s, SkipSpace(s, SkipSpace(s, p + n) + 1)))

MatchPlusAt(s, p) ==
    IF PlusTail(s, p, Greedy[1]) THEN <<IntAt(s, p, Greedy[1])>>
    ELSE IF PlusTail(s, p, Greedy[2]) THEN <<IntAt(s, p, Greedy[2])>>
    ELSE NoMatch

\* minimum\s+of\s+(\d{1,2})\s*years? at p
MatchMinimumAt(s, p) ==
    IF /\ At(s, p) = "minimum"
       /\ IsSpace(At(s, p + 1))
       /\ At(s, SkipSpace(s, p + 1)) = "of"
       /\ IsSpace(At(s, SkipSpace(s, p + 1) + 1))
    THEN MatchYearsAt(s, SkipSpace(s, SkipSpace(s, p + 1) + 1))
    ELSE NoMatch

RECURSIVE Search(_, _, _)
\* re.search: the match at the leftmost position >= p where the pattern
\* matches, or NoMatch
Search(MatchAt(_, _), s, p) ==
    IF p > Len(s) THEN NoMatch
    ELSE IF MatchAt(s, p) # NoMatch THEN MatchAt(s, p)
    ELSE Search(MatchAt, s, p + 1)

\* parse_experience_text with the bare "<N> years" pattern tried before the
\* "<N>+ years" and "minimum of <N> years" patterns
parse_experience_text_bare_first(t) ==
    IF ~Truthy(t) THEN <<NoneY, NoneY>>
    ELSE LET s  == Lower(t)
             m1 == Search(MatchRangeAt, s, 1)
             m2 == Search(MatchPlusAt, s, 1)
             m3 == Search(MatchMinimumAt, s, 1)
             m4 == Search(MatchYearsAt, s, 1)
         IN  IF m1 # NoMatch THEN <<m1[1], m1[2]>>
             ELSE IF m4 # NoMatch THEN <<m4[1], m4[1]>>
             ELSE IF m2 # NoMatch THEN <<m2[1], NoneY>>
             ELSE IF m3 # NoMatch THEN <<m3[1], NoneY>>
             ELSE <<NoneY, NoneY>>

parse_experience_text(t) ==
    IF ~Truthy(t) THEN <<NoneY, NoneY>>
    ELSE LET s  == Lower(t)
             m1 == Search(MatchRangeAt, s, 1)
             m2 == Search(MatchPlusAt, s, 1)
             m3 == Search(MatchMinimumAt, s, 1)
             m4 == Search(MatchYearsAt, s, 1)
         IN  IF m1 # NoMatch THEN <<m1[1], m1[2]>>
             ELSE IF m2 # NoMatch THEN <<m2[1], NoneY>>
             ELSE IF m3 # NoMatch THEN <<m3[1], NoneY>>
             ELSE IF m4 # NoMatch THEN <<m4[1], m4[1]>>
             ELSE <<NoneY, NoneY>>

----------------------------------------------------------------------------
(* experience_matches *)

MIN_YEARS == 2
MAX_YEARS == 6

\* experience_matches with the lower edge of the band excluded
experience_matches_strict(mn, mx) ==
    IF mn = NoneY /\ mx = NoneY THEN TRUE
    ELSE IF mn # NoneY /\ mx # NoneY THEN ~(mx <= MIN_YEARS \/ mn > MAX_YEARS)
    ELSE IF mn # NoneY THEN mn <= MAX_YEARS
    ELSE IF mx # NoneY THEN mx >= MIN_YEARS
    ELSE FALSE

experience_matches(mn, mx) ==
    IF mn = NoneY /\ mx = NoneY THEN TRUE
    ELSE IF mn # NoneY /\ mx # NoneY THEN ~(mx < MIN_YEARS \/ mn > MAX_YEARS)
    ELSE IF mn # NoneY THEN mn <= MAX_YEARS
    ELSE IF mx # NoneY THEN mx >= MIN_YEARS
    ELSE FALSE

----------------------------------------------------------------------------
(* Substring tests *)

\* words of the model that hold a shorter word of the model at their start
PrefixPairs == { <<"indiana", "india">>, <<"years", "year">>,
                 <<"engineers", "engineer">> }

\* the k-th word of a phrase of length len lies in the token tok of the text
\* where a substring match needs it: whole token inside the phrase, a prefix
\* of the token at the end of the phrase
TokenHolds(tok, phrase, k) ==
    \/ tok = phrase[k]
    \/ k = Len(phrase) /\ <<tok, phrase[k]>> \in PrefixPairs

\* phrase in t  (Python substring test), both lower-cased
Contains(t, phrase) ==
    \E p \in 1..(Len(t) - Len(phrase) + 1) :
        \A k \in 1..Len(phrase) : TokenHolds(t[p + k - 1], phrase, k)

----------------------------------------------------------------------------
(* location_matches *)

location_matches(location_text) ==
    IF ~Truthy(location_text) THEN TRUE
    ELSE LET t == Lower(location_text)
         IN  IF \/ Contains(t, <<"remote">>)
                \/ Contains(t, <<"india">>)
                \/ Contains(t, <<"india", " ", "remote">>)
                \/ Contains(t, <<"pan", " ", "india">>)
             THEN TRUE
             ELSE FALSE

----------------------------------------------------------------------------
(* text_contains_keywords *)

KEYWORDS == << <<"DevOps", " ", "Engineer">>, <<"Cloud", " ", "Engineer">>,
               <<"Site", " ", "Reliability", " ", "Engineer">>,
               <<"Platform", " ", "Engineer">>,
               <<"Infrastructure", " ", "Engineer">>, <<"AWS", " ", "Engineer">>,
               <<"Azure", " ", "DevOps", " ", "Engineer">>,
               <<"Kubernetes", " ", "Engineer">> >>

text_contains_keywords(txt) ==
    LET t == Lower(Or(txt, <<>>))
    IN  IF \E k \in 1..Len(KEYWORDS) : Contains(t, Lower(KEYWORDS[k])) THEN TRUE
        ELSE IF \/ Contains(t, <<"devops">>) \/ Contains(t, <<"cloud">>)
                \/ Contains(t, <<"sre">>)
                \/ Contains(t, <<"site", " ", "reliability">>)
        THEN TRUE
        ELSE FALSE

----------------------------------------------------------------------------
(* filter_jobs *)

\* the text filter_jobs searches: the four fields joined by single spaces,
\* then whitespace-normalized
combined_text(j) ==
    normalize_text(Join(<<Or(j.title, <<>>), Or(j.company, <<>>),
                          Or(j.location, <<>>), Or(j.snippet, <<>>)>>))

\* passes with the snippet taking precedence over the location field
passes_snippet_first(j) ==
    LET c == combined_text(j)
        e == parse_experience_text(c)
    IN  IF ~text_contains_keywords(c) THEN FALSE
        ELSE IF ~experience_matches(e[1], e[2]) THEN FALSE
        ELSE IF ~location_matches(Or(j.snippet, j.location)) THEN FALSE
        ELSE TRUE

\* the record survives the three checks of the loop body
passes(j) ==
    LET c == combined_text(j)
        e == parse_experience_text(c)
    IN  IF ~text_contains_keywords(c) THEN FALSE
        ELSE IF ~experience_matches(e[1], e[2]) THEN FALSE
        ELSE IF ~location_matches(Or(j.location, j.snippet)) THEN FALSE
        ELSE TRUE

\* FilterStep that puts a surviving record at the front of the list
FilterStep_prepend ==
    /\ pc = "filter"
    /\ i <= Len(raw_jobs)
    /\ filtered' = IF passes(raw_jobs[i]) THEN <<raw_jobs[i]>> \o filtered
                   ELSE filtered
    /\ i' = i + 1
    /\ UNCHANGED <<pc, raw_jobs, input0, scrapeVars, uniq, mailVars>>
    /\ UNCHANGED notFilter

\* one iteration of  for j in raw_jobs
FilterStep ==
    /\ pc = "filter"
    /\ i <= Len(raw_jobs)
    /\ filtered' = IF passes(raw_jobs[i]) THEN Append(filtered, raw_jobs[i])
                   ELSE filtered
    /\ i' = i + 1
    /\ UNCHANGED <<pc, raw_jobs, input0, scrapeVars, uniq, mailVars>>
    /\ UNCHANGED notFilter

\* the loop is exhausted: return filtered
FilterReturn ==
    /\ pc = "filter"
    /\ i > Len(raw_jobs)
    /\ pc' = "filtered"
    /\ UNCHANGED <<raw_jobs, input0, i, filtered, scrapeVars, uniq, mailVars>>
    /\ UNCHANGED notFilter

----------------------------------------------------------------------------
(* The scrapers.  An anchor is an element the selector returned: its href   *)
(* attribute, its text and the text of the parent the scraper looks up      *)
(* (None when there is no such parent).                                     *)

NumKeywords == 1
NumDomains  == 1
MaxCards    == 2
MaxJobs     == 3

IndeedLimit  == 25
GenericLimit == 15

big_tech_domains == <<"careers.google.com", "careers.amazon.com", "jobs.lever.co",
                      "jobs.github.com", "netflixjobs.com", "careers.microsoft.com">>

Min(a, b) == IF a <= b THEN a ELSE b

\* the adapter invocations of collect_jobs, in order: every search term on
\* Indeed, every search term on Wellfound, the first four terms on every domain
Invocations ==
    [k \in 1..NumKeywords |-> [adapter |-> "indeed", domain |-> "-"]]
    \o [k \in 1..NumKeywords |-> [adapter |-> "wellfound", domain |-> "-"]]
    \o [k \in 1..(NumDomains * Min(4, NumKeywords)) |->
           [adapter |-> "generic",
            domain |-> big_tech_domains[((k - 1) \div Min(4, NumKeywords)) + 1]]]

NumInv == Len(Invocations)

WellfoundJob == <<"/jobs/", "1">>

IndeedAnchors ==
    { [href |-> h, text |-> t, parent |-> t \o <<"\n", " ", "Remote">>] :
        h \in {None, <<"/rc/", "1">>},
        t \in {<<>>, <<"DevOps">>, <<"SRE">>} }

\* the selector a[href*="/jobs/"] returns only anchors whose href holds /jobs/
WellfoundAnchors ==
    { [href |-> h, text |-> t, parent |-> None] :
        h \in {WellfoundJob, <<"https://wellfound.com">> \o WellfoundJob},
        t \in {<<"DevOps">>} }

GenericAnchors ==
    { [href |-> h, text |-> t, parent |-> q] :
        h \in {None, <<"https://wellfound.com">> \o WellfoundJob},
        t \in {<<"SRE">>},
        q \in {None, <<"SRE", "\n", "India">>} }

AnchorsOf(adapter) ==
    CASE adapter = "indeed" -> IndeedAnchors
      [] adapter = "wellfound" -> WellfoundAnchors
      [] adapter = "generic" -> GenericAnchors

\* the slice of the element list the for loop iterates over
LimitOf(adapter) ==
    CASE adapter = "indeed" -> IndeedLimit
      [] adapter = "wellfound" -> MaxCards
      [] adapter = "generic" -> GenericLimit

\* s.startswith(prefix), prefix one token
StartsWith(s, prefix) == Len(s) > 0 /\ s[1] = prefix

\* the record scrape_indeed appends for anchor a
IndeedRecord(a) ==
    LET link0   == Or(a.href, <<>>)
        link    == IF Truthy(link0) /\ StartsWith(link0, "/rc/")
                   THEN <<"https://in.indeed.com">> \o link0 ELSE link0
        snippet == IF a.parent # None THEN normalize_text(a.parent) ELSE <<>>
    IN  [title |-> normalize_text(a.text), company |-> None, location |-> snippet,
         link |-> link, source |-> "Indeed", snippet |-> snippet]

\* the link scrape_wellfound computes for anchor a
WellfoundLink(a) ==
    IF StartsWith(a.href, "/jobs/") THEN <<"https://wellfound.com">> \o a.href
    ELSE a.href

WellfoundRecord(a) ==
    [title |-> normalize_text(a.text), company |-> None, location |-> <<"Remote">>,
     link |-> WellfoundLink(a), source |-> "Wellfound",
     snippet |-> normalize_text(a.text)]

\* the record scrape_generic_site_search appends for anchor a
GenericRecord(a, domain) ==
    LET snippet == IF a.parent # None THEN normalize_text(a.parent) ELSE <<>>
    IN  [title |-> normalize_text(a.text), company |-> <<domain>>,
         location |-> snippet, link |-> a.href, source |-> "Search:" \o domain,
         snippet |-> snippet]

Running == Invocations[inv]

\* collect_jobs calls the next scraper: results = [] and the URL is built
Scrape ==
    /\ pc = "collect"
    /\ inv <= NumInv
    /\ results' = <<>>
    /\ seen' = {}
    /\ ncards' = 0
    /\ failed' = FALSE
    /\ slept' = FALSE
    /\ calls' = 0
    /\ pc' = "get"
    /\ UNCHANGED <<inv, allfailed, jobs>>
    /\ UNCHANGED notScrape

\* requests.get returns a response
GetOk ==
    /\ pc = "get"
    /\ calls' = calls + 1
    /\ pc' = "sleep"
    /\ UNCHANGED <<inv, results, seen, ncards, failed, slept, allfailed, jobs>>
    /\ UNCHANGED notScrape

\* requests.get raises (timeout, DNS, connection error): the except clause
\* prints and the function goes on to return results
GetRaises ==
    /\ pc = "get"
    /\ calls' = calls + 1
    /\ failed' = TRUE
    /\ pc' = "return"
    /\ UNCHANGED <<inv, results, seen, ncards, slept, allfailed, jobs>>
    /\ UNCHANGED notScrape

\* time.sleep(SLEEP_BETWEEN_REQUESTS)
Sleep ==
    /\ pc = "sleep"
    /\ slept' = TRUE
    /\ pc' = "soup"
    /\ UNCHANGED <<inv, results, seen, ncards, failed, calls, allfailed, jobs>>
    /\ UNCHANGED notScrape

\* BeautifulSoup(r.text, "html.parser") and soup.select(...) return
SoupOk ==
    /\ pc = "soup"
    /\ pc' = "cards"
    /\ UNCHANGED scrapeVars
    /\ UNCHANGED notScrape

\* parsing or selecting raises
SoupRaises ==
    /\ pc = "soup"
    /\ failed' = TRUE
    /\ pc' = "return"
    /\ UNCHANGED <<inv, results, seen, ncards, slept, calls, allfailed, jobs>>
    /\ UNCHANGED notScrape

\* the element list has one more element within the slice
MoreCards ==
    /\ ncards < Min(MaxCards, LimitOf(Running.adapter))
    /\ Len(jobs) + Len(results) < MaxJobs

\* one iteration of the for loop over the selected anchors
Card(a) ==
    /\ pc = "cards"
    /\ MoreCards
    /\ ncards' = ncards + 1
    /\ CASE Running.adapter = "indeed" ->
              /\ results' = Append(results, IndeedRecord(a))
              /\ seen' = seen
         [] Running.adapter = "wellfound" ->
              IF ~Truthy(a.href) \/ WellfoundLink(a) \in seen
              THEN results' = results /\ seen' = seen
              ELSE /\ results' = Append(results, WellfoundRecord(a))
                   /\ seen' = seen \cup {WellfoundLink(a)}
         [] Running.adapter = "generic" ->
              /\ results' = Append(results, GenericRecord(a, Running.domain))
              /\ seen' = seen
    /\ UNCHANGED <<pc, inv, failed, slept, calls, allfailed, jobs>>
    /\ UNCHANGED notScrape

\* an iteration raises (get_text, find_parent, an attribute access): the
\* except clause prints and the function goes on to return results
CardRaises ==
    /\ pc = "cards"
    /\ MoreCards
    /\ failed' = TRUE
    /\ pc' = "return"
    /\ UNCHANGED <<inv, results, seen, ncards, slept, calls, allfailed, jobs>>
    /\ UNCHANGED notScrape

\* the for loop is exhausted
CardsEnd ==
    /\ pc = "cards"
    /\ pc' = "return"
    /\ UNCHANGED scrapeVars
    /\ UNCHANGED notScrape

\* return results; collect_jobs extends jobs with them and goes on to the
\* next invocation, or to the dedup loop after the last one
Return ==
    /\ pc = "return"
    /\ jobs' = jobs \o results
    /\ allfailed' = (allfailed /\ failed)
    /\ inv' = inv + 1
    /\ pc' = IF inv + 1 > NumInv THEN "dedup" ELSE "collect"
    /\ UNCHANGED <<results, seen, ncards, failed, slept, calls>>
    /\ UNCHANGED notScrape

----------------------------------------------------------------------------
(* collect_jobs: deduplicate by link *)

\* j.get("link") or j.get("title") or ""
KeyOf(j) == Or(Or(j.link, j.title), <<>>)

HasKey(u, key) == \E k \in 1..Len(u) : u[k].key = key

\* DedupStep without the  if key not in uniq  test: the last record of a key
\* replaces the earlier one
DedupStep_last_wins ==
    /\ pc = "dedup"
    /\ i <= Len(jobs)
    /\ LET j == jobs[i]
           link == KeyOf(j)
       IN  uniq' = IF ~Truthy(link) THEN uniq
                   ELSE IF ~HasKey(uniq, link) THEN Append(uniq, [key |-> link, job |-> j])
                   ELSE [k \in 1..Len(uniq) |->
                            IF uniq[k].key = link THEN [key |-> link, job |-> j]
                            ELSE uniq[k]]
    /\ i' = i + 1
    /\ UNCHANGED <<pc, raw_jobs, input0, filtered, scrapeVars>>
    /\ UNCHANGED notDedup

\* DedupStep without the  if not link: continue  test
DedupStep_keeps_empty ==
    /\ pc = "dedup"
    /\ i <= Len(jobs)
    /\ LET j == jobs[i]
           link == KeyOf(j)
       IN  uniq' = IF ~HasKey(uniq, link) THEN Append(uniq, [key |-> link, job |-> j])
                   ELSE uniq
    /\ i' = i + 1
    /\ UNCHANGED <<pc, raw_jobs, input0, filtered, scrapeVars>>
    /\ UNCHANGED notDedup

\* one iteration of  for j in jobs
DedupStep ==
    /\ pc = "dedup"
    /\ i <= Len(jobs)
    /\ LET j == jobs[i]
           link == KeyOf(j)
       IN  uniq' = IF ~Truthy(link) THEN uniq
                   ELSE IF ~HasKey(uniq, link) THEN Append(uniq, [key |-> link, job |-> j])
                   ELSE uniq
    /\ i' = i + 1
    /\ UNCHANGED <<pc, raw_jobs, input0, filtered, scrapeVars>>
    /\ UNCHANGED notDedup

\* results = list(uniq.values()); return results; main calls filter_jobs(raw)
DedupReturn ==
    /\ pc = "dedup"
    /\ i > Len(jobs)
    /\ raw_jobs' = [k \in 1..Len(uniq) |-> uniq[k].job]
    /\ input0' = raw_jobs'
    /\ i' = 1
    /\ filtered' = <<>>
    /\ pc' = "filter"
    /\ UNCHANGED <<uniq, scrapeVars>>
    /\ UNCHANGED notDedup

----------------------------------------------------------------------------
(* build_email_html, send_email, main *)

\* html.escape on one token
EscapeTok(t) ==
    CASE t = "&" -> "&amp;" [] t = "<" -> "&lt;" [] t = ">" -> "&gt;"
      [] t = "\"" -> "&quot;" [] t = "'" -> "&#x27;" [] OTHER -> t

Escape(s) == [k \in 1..Len(s) |-> EscapeTok(s[k])]

NoResults == [head |-> "<p>No matching jobs found today.</p>", rows |-> <<>>]

build_email_html(js) ==
    IF js = <<>> THEN NoResults
    ELSE [head |-> "<p>Found matching jobs</p>",
          rows |-> [k \in 1..Len(js) |->
                     [idx      |-> k,
                      title    |-> Escape(Or(js[k].title, <<"-">>)),
                      company  |-> Escape(Or(Or(js[k].company, <<js[k].source>>), <<"-">>)),
                      location |-> Escape(Or(js[k].location, <<"-">>)),
                      link     |-> Or(js[k].link, <<"#">>),
                      snippet  |-> Escape(Or(js[k].snippet, <<>>))]]]

\* Render that skips build_email_html when nothing matched
Render_unless_empty ==
    /\ pc = "filtered"
    /\ IF filtered = <<>>
       THEN pc' = "done" /\ UNCHANGED mailVars
       ELSE /\ html_body' = build_email_html(filtered)
            /\ renders' = renders + 1
            /\ pc' = "send"
            /\ UNCHANGED <<creds, sent, file>>
    /\ UNCHANGED notMail

\* html_body = build_email_html(matches)
Render ==
    /\ pc = "filtered"
    /\ html_body' = build_email_html(filtered)
    /\ renders' = renders + 1
    /\ pc' = "send"
    /\ UNCHANGED <<creds, sent, file>>
    /\ UNCHANGED notMail

\* send_email raises RuntimeError: a credential is missing; main catches it
SendNoCredentials ==
    /\ pc = "send"
    /\ ~creds
    /\ pc' = "fallback"
    /\ UNCHANGED mailVars
    /\ UNCHANGED notMail

\* send_email goes through: the SMTP server takes the message
SendOk ==
    /\ pc = "send"
    /\ creds
    /\ sent' = TRUE
    /\ pc' = "done"
    /\ UNCHANGED <<html_body, renders, creds, file>>
    /\ UNCHANGED notMail

\* connecting, starttls, login or sendmail raises; main catches it
SendRaises ==
    /\ pc = "send"
    /\ creds
    /\ pc' = "fallback"
    /\ UNCHANGED mailVars
    /\ UNCHANGED notMail

\* the except clause of main writes jobs_output.html
FallbackOk ==
    /\ pc = "fallback"
    /\ file' = html_body
    /\ pc' = "done"
    /\ UNCHANGED <<html_body, renders, creds, sent>>
    /\ UNCHANGED notMail

\* open or write raises inside the except clause (directory not writable,
\* disk full): nothing catches it and main ends with the exception
FallbackRaises ==
    /\ pc = "fallback"
    /\ pc' = "crashed"
    /\ UNCHANGED mailVars
    /\ UNCHANGED notMail

----------------------------------------------------------------------------
(* Harness of parse_experience_text: a text is built piece by piece and     *)
(* parsed after every piece.  A piece is one token or one whole phrase.     *)

MaxPieces == 4

ParsePieces == { <<"1">>, <<"3">>, <<" ">>, <<"-">>, <<"+">>, <<"Years">>,
                 <<"Minimum", " ", "of", " ">>,
                 <<"2", "-", "4", " ", "years">>,
                 <<"5", "+", " ", "Years">>,
                 <<"7", " ", "years">> }

RangeIdle  == min_y = NoneY /\ max_y = NoneY /\ ok = TRUE
TextIdle   == text = <<>> /\ exp = <<NoneY, NoneY>> /\ npieces = 0
FilterIdle == raw_jobs = <<>> /\ input0 = <<>> /\ i = 1 /\ filtered = <<>>
NoFile     == [head |-> "<absent>", rows |-> <<>>]
MainIdle   ==
    /\ inv = 1 /\ results = <<>> /\ seen = {} /\ ncards = 0 /\ failed = FALSE
    /\ slept = FALSE /\ calls = 0 /\ allfailed = TRUE /\ jobs = <<>> /\ uniq = <<>>
    /\ html_body = NoFile /\ renders = 0 /\ creds = FALSE /\ sent = FALSE
    /\ file = NoFile

ParseInit ==
    /\ pc = "parse"
    /\ npieces = 0
    /\ text = <<>>
    /\ exp = parse_experience_text(<<>>)
    /\ RangeIdle
    /\ FilterIdle
    /\ MainIdle

\* one more piece of text arrives and the whole text is parsed
ParseText(piece) ==
    /\ pc = "parse"
    /\ npieces < MaxPieces
    /\ npieces' = npieces + 1
    /\ text' = text \o piece
    /\ exp' = parse_experience_text(text')
    /\ UNCHANGED <<pc, rangeVars, filterVars, scrapeVars, uniq, mailVars>>

ParseNext == \E piece \in ParsePieces : ParseText(piece)

ParseSpec == ParseInit /\ [][ParseNext]_vars

(* What the regular expressions match, stated on positions. *)

Matches(MatchAt(_, _), s) == \E p \in 1..Len(s) : MatchAt(s, p) # NoMatch

\* the groups of the match at the least position where the pattern matches
Leftmost(MatchAt(_, _), s) ==
    MatchAt(s, CHOOSE p \in 1..Len(s) :
                  /\ MatchAt(s, p) # NoMatch
                  /\ \A q \in 1..(p - 1) : MatchAt(s, q) = NoMatch)

LeftmostPos(MatchAt(_, _), s) ==
    CHOOSE p \in 1..Len(s) :
        /\ MatchAt(s, p) # NoMatch
        /\ \A q \in 1..(p - 1) : MatchAt(s, q) = NoMatch

(* A whole decimal number of any length at p..p+k-1, as a reader of the     *)
(* text sees it: not part of a longer run of digits.                        *)
WholeNumber(s, p, k) ==
    /\ k >= 1
    /\ \A j \in p..(p + k - 1) : IsDigit(At(s, j))
    /\ ~IsDigit(At(s, p - 1))
    /\ ~IsDigit(At(s, p + k))

RECURSIVE Decimal(_, _, _)
Decimal(s, p, k) ==
    IF k = 0 THEN 0 ELSE 10 * Decimal(s, p, k - 1) + DigitVal[s[p + k - 1]]

\* the text reads "<N>-<M> years" at p, N of k1 digits and M of k2 digits
ReadsRange(s, p, k1, k2) ==
    /\ WholeNumber(s, p, k1)
    /\ IsDash(At(s, SkipSpace(s, p + k1)))
    /\ WholeNumber(s, SkipSpace(s, SkipSpace(s, p + k1) + 1), k2)
    /\ IsYear(At(s, SkipSpace(s, SkipSpace(s, SkipSpace(s, p + k1) + 1) + k2)))

RangeRead(s, p, k1, k2) ==
    <<Decimal(s, p, k1),
      Decimal(s, SkipSpace(s, SkipSpace(s, p + k1) + 1), k2)>>

\* the result is that of the highest-precedence pattern that matches anywhere,
\* and <<None, None>> exactly when none matches
PrecedenceHolds ==
    LET s  == Lower(text)
        h1 == Matches(MatchRangeAt, s)
        h2 == Matches(MatchPlusAt, s)
        h3 == Matches(MatchMinimumAt, s)
        h4 == Matches(MatchYearsAt, s)
    IN  /\ h1 => exp = <<Leftmost(MatchRangeAt, s)[1], Leftmost(MatchRangeAt, s)[2]>>
        /\ ~h1 /\ h2 => exp = <<Leftmost(MatchPlusAt, s)[1], NoneY>>
        /\ ~h1 /\ ~h2 /\ h3 => exp = <<Leftmost(MatchMinimumAt, s)[1], NoneY>>
        /\ ~h1 /\ ~h2 /\ ~h3 /\ h4 =>
               exp = <<Leftmost(MatchYearsAt, s)[1], Leftmost(MatchYearsAt, s)[1]>>
        /\ (exp = <<NoneY, NoneY>>) <=> ~(h1 \/ h2 \/ h3 \/ h4)

\* C9 as stated: the precedence order holds, and every text that reads
\* "<N>-<M> years" somewhere with N <= M parses to exactly (N, M)
C9_AsStated ==
    /\ PrecedenceHolds
    /\ LET s == Lower(text)
       IN  \A p \in 1..Len(s), k1 \in 1..Len(s), k2 \in 1..Len(s) :
               (/\ ReadsRange(s, p, k1, k2)
                /\ RangeRead(s, p, k1, k2)[1] <= RangeRead(s, p, k1, k2)[2])
               => exp = RangeRead(s, p, k1, k2)

\* C9 amended: the precedence order holds with first-match-wins, the result is
\* <<None, None>> iff no pattern matches, and a text in which the range pattern
\* (numbers of one or two digits) matches parses to the (N, M) of its leftmost
\* match, whatever other ranges or lower-precedence patterns the text holds
C9_Precedence ==
    /\ PrecedenceHolds
    /\ LET s == Lower(text)
       IN  \A p \in 1..Len(s), k1 \in 1..2, k2 \in 1..2 :
               (/\ ReadsRange(s, p, k1, k2)
                /\ \A q \in 1..(p - 1) : MatchRangeAt(s, q) = NoMatch)
               => exp = RangeRead(s, p, k1, k2)

\* a range "<N>-<M> years" with N <= M wins over a bare "<K> years" and a
\* "<K>+ years" that both occur earlier in the text
C9_Witness ==
    LET s == Lower(text)
    IN  /\ Matches(MatchRangeAt, s) /\ Matches(MatchPlusAt, s)
        /\ LeftmostPos(MatchYearsAt, s) < LeftmostPos(MatchPlusAt, s)
        /\ LeftmostPos(MatchPlusAt, s) < LeftmostPos(MatchRangeAt, s)
        /\ exp = <<2, 4>>

----------------------------------------------------------------------------
(* Harness of experience_matches *)

MaxYearsIn == 9

OptYears == {NoneY} \cup 0..MaxYearsIn

RangeInit ==
    /\ pc = "match"
    /\ min_y \in OptYears
    /\ max_y \in OptYears
    /\ ok = TRUE
    /\ TextIdle
    /\ FilterIdle
    /\ MainIdle

Match ==
    /\ pc = "match"
    /\ ok' = experience_matches(min_y, max_y)
    /\ pc' = "matched"
    /\ UNCHANGED <<min_y, max_y, textVars, filterVars, scrapeVars, uniq, mailVars>>

RangeNext == Match

RangeSpec == RangeInit /\ [][RangeNext]_vars

\* the closed intervals [a, b] and [c, d] have a year in common
Overlap(a, b, c, d) == \E y \in 0..99 : a <= y /\ y <= b /\ c <= y /\ y <= d

\* C8 as stated: for all optional min and max the result is the overlap of
\* [min, max] with [2, 6] when both are present, min <= 6 when only min is,
\* max >= 2 when only max is, and true when both are absent
C8_AsStated ==
    pc = "matched" =>
        ok = (IF min_y = NoneY /\ max_y = NoneY THEN TRUE
              ELSE IF min_y # NoneY /\ max_y # NoneY
                   THEN Overlap(min_y, max_y, 2, 6)
              ELSE IF min_y # NoneY THEN min_y <= 6
              ELSE max_y >= 2)

\* C8 amended: as stated when min <= max; when both are present the result is
\* max >= 2 and min <= 6, which for min > max is not the overlap of [min, max]
\* with [2, 6] (that interval is empty)
C8_Band ==
    pc = "matched" =>
        /\ ok = (IF min_y = NoneY /\ max_y = NoneY THEN TRUE
                 ELSE IF min_y # NoneY /\ max_y # NoneY
                      THEN max_y >= 2 /\ min_y <= 6
                 ELSE IF min_y # NoneY THEN min_y <= 6
                 ELSE max_y >= 2)
        /\ (min_y # NoneY /\ max_y # NoneY /\ min_y <= max_y)
               => ok = Overlap(min_y, max_y, 2, 6)
        /\ (min_y = 7 /\ max_y = 9) => ~ok
        /\ (min_y = 1 /\ max_y = 3) => ok

\* (7, 9) has been rejected
C8_Witness == pc = "matched" /\ min_y = 7 /\ max_y = 9 /\ ~ok

----------------------------------------------------------------------------
(* Harness of filter_jobs *)

MaxRaw == 2

PlatformSnippet == <<"Platform", " ", "Engineer", ",", " ", "2", "-", "4", " ",
                     "years", ",", " ", "distributed", " ", "systems">>

DevOpsSnippet == <<"DevOps", ",", " ", "7", "+", " ", "years", ",", " ",
                   "Remote", " ", "India">>

FilterTitles    == { <<>>, <<"SRE", " ", "9", " ", "Years">> }
FilterCompanies == { None, <<"Acme", " ", "Cloud">> }
FilterLocations == { <<>>, <<"Remote">>, <<"New", " ", "York">> }
FilterSnippets  == { <<>>, PlatformSnippet, DevOpsSnippet }

FilterRecords ==
    [title : FilterTitles, company : FilterCompanies, location : FilterLocations,
     link : {<<"https://x/", "1">>}, source : {"Indeed"}, snippet : FilterSnippets]

FilterInit ==
    /\ pc = "filter"
    /\ raw_jobs \in UNION {[1..k -> FilterRecords] : k \in 0..MaxRaw}
    /\ input0 = raw_jobs
    /\ i = 1
    /\ filtered = <<>>
    /\ TextIdle
    /\ RangeIdle
    /\ MainIdle

FilterNext ==
    \/ FilterStep
    \/ FilterReturn

FilterSpec == FilterInit /\ [][FilterNext]_vars

\* title, company, location and snippet concatenated, whitespace-normalized
Blob(j) ==
    LET f(x) == IF x = None THEN <<>> ELSE x
    IN  normalize_text(f(j.title) \o <<" ">> \o f(j.company) \o <<" ">>
                       \o f(j.location) \o <<" ">> \o f(j.snippet))

\* the three checks of the Filter contract
Qualifies(j) ==
    LET b == Blob(j)
        e == parse_experience_text(b)
    IN
    /\ text_contains_keywords(b)
    /\ experience_matches(e[1], e[2])
    /\ location_matches(IF j.location \notin {None, <<>>} THEN j.location
                        ELSE j.snippet)

InSeq(x, sq) == \E k \in 1..Len(sq) : sq[k] = x

\* C6: filter_jobs keeps a record iff it is relevant, its experience range
\* matches the band (2, 6) and its location (or, without one, its snippet)
\* matches; a "New York" record is dropped whatever else it says; the record
\* with location "Remote" and the "Platform Engineer, 2-4 years" snippet is kept
C6_KeepsIffAllThree ==
    pc = "filtered" =>
        /\ filtered = SelectSeq(raw_jobs, Qualifies)
        /\ \A k \in 1..Len(raw_jobs) :
              /\ raw_jobs[k].location = <<"New", " ", "York">>
                    => ~InSeq(raw_jobs[k], filtered)
              /\ (/\ raw_jobs[k].location = <<"Remote">>
                  /\ raw_jobs[k].snippet = PlatformSnippet
                  /\ raw_jobs[k].title = <<>>
                  /\ raw_jobs[k].company = None)
                    => InSeq(raw_jobs[k], filtered)

\* a relevant in-band "New York" record was dropped and the "Remote" record kept
C6_Witness ==
    /\ pc = "filtered"
    /\ Len(raw_jobs) = 2
    /\ raw_jobs[1].location = <<"New", " ", "York">>
    /\ raw_jobs[1].snippet = PlatformSnippet
    /\ raw_jobs[2] = [title |-> <<>>, company |-> None, location |-> <<"Remote">>,
                      link |-> <<"https://x/", "1">>, source |-> "Indeed",
                      snippet |-> PlatformSnippet]
    /\ filtered = <<raw_jobs[2]>>

\* sub is a subsequence of sq: its elements occur in sq in the same order
RECURSIVE IsSubseq(_, _)
IsSubseq(sub, sq) ==
    IF sub = <<>> THEN TRUE
    ELSE IF sq = <<>> THEN FALSE
    ELSE IF Head(sub) = Head(sq) THEN IsSubseq(Tail(sub), Tail(sq))
    ELSE IsSubseq(sub, Tail(sq))

\* C7: at every point of filter_jobs the list built so far is a subsequence,
\* in input order, of the records already visited, each with the field values
\* it had on input, and the input sequence is as it was at the call
C7_Frame ==
    pc \in {"filter", "filtered"} =>
        /\ raw_jobs = input0
        /\ IsSubseq(filtered, SubSeq(input0, 1, i - 1))
        /\ \A k \in 1..Len(filtered) : filtered[k] \in FilterRecords

\* two different records were both kept, in input order
C7_Witness ==
    /\ pc = "filtered"
    /\ Len(raw_jobs) = 2
    /\ raw_jobs[1] # raw_jobs[2]
    /\ filtered = raw_jobs

----------------------------------------------------------------------------
(* main *)

MainInit ==
    /\ pc = "collect"
    /\ creds \in BOOLEAN
    /\ inv = 1 /\ results = <<>> /\ seen = {} /\ ncards = 0 /\ failed = FALSE
    /\ slept = FALSE /\ calls = 0 /\ allfailed = TRUE /\ jobs = <<>> /\ uniq = <<>>
    /\ html_body = NoFile /\ renders = 0 /\ sent = FALSE /\ file = NoFile
    /\ FilterIdle
    /\ TextIdle
    /\ RangeIdle

\* the anchors the running invocation's selector can return
AnchorsHere == IF inv <= NumInv THEN AnchorsOf(Running.adapter) ELSE {}

MainNext ==
    \/ Scrape
    \/ GetOk
    \/ GetRaises
    \/ Sleep
    \/ SoupOk
    \/ SoupRaises
    \/ \E a \in AnchorsHere : Card(a)
    \/ CardRaises
    \/ CardsEnd
    \/ Return
    \/ DedupStep
    \/ DedupReturn
    \/ FilterStep
    \/ FilterReturn
    \/ Render
    \/ SendNoCredentials
    \/ SendOk
    \/ SendRaises
    \/ FallbackOk
    \/ FallbackRaises

MainSpec == MainInit /\ [][MainNext]_vars

\* the steps of main other than an iteration of the filter loop
MainNextButFilter ==
    \/ Scrape
    \/ GetOk
    \/ GetRaises
    \/ Sleep
    \/ SoupOk
    \/ SoupRaises
    \/ \E a \in AnchorsHere : Card(a)
    \/ CardRaises
    \/ CardsEnd
    \/ Return
    \/ DedupStep
    \/ DedupReturn
    \/ FilterReturn
    \/ Render
    \/ SendNoCredentials
    \/ SendOk
    \/ SendRaises
    \/ FallbackOk
    \/ FallbackRaises

\* what every iteration of the filter loop does, whatever it decides: a step
\* of main is a FilterStep iff it is a FilterAdvance, and FilterStep is
\* enabled iff FilterAdvance is
FilterAdvance == pc = "filter" /\ i <= Len(raw_jobs) /\ i' = i + 1

\* the interpreter runs the single thread of main until it ends: no step
\* waits forever (every network call has a timeout)
MainFair == MainSpec /\ WF_vars(MainNextButFilter) /\ WF_i(FilterAdvance)

(* collect_jobs has returned *)
Collected == pc \in {"filter", "filtered", "send", "fallback", "done", "crashed"}

\* every adapter invocation has returned
AllRan == inv = NumInv + 1

\* the dedup key of a record: its link, or its title when it has no link
DedupKey(j) ==
    IF j.link \notin {None, <<>>} THEN j.link
    ELSE IF j.title \notin {None, <<>>} THEN j.title
    ELSE <<>>

\* of the records supplied with a key, exactly one record is in the output
\* and it is the first one supplied
FirstWins ==
    \A k \in 1..Len(jobs) :
        DedupKey(jobs[k]) # <<>> =>
            LET first == CHOOSE a \in 1..k :
                             /\ DedupKey(jobs[a]) = DedupKey(jobs[k])
                             /\ \A b \in 1..(a - 1) : DedupKey(jobs[b]) # DedupKey(jobs[k])
                out   == {a \in 1..Len(raw_jobs) : DedupKey(raw_jobs[a]) = DedupKey(jobs[k])}
            IN  /\ Cardinality(out) = 1
                /\ \A a \in out : raw_jobs[a] = jobs[first]

\* C1 as stated: the link values of the output of collect_jobs are pairwise
\* unique and of the records colliding on the dedup key the first one survives
C1_AsStated ==
    Collected =>
        /\ \A a, b \in 1..Len(raw_jobs) : a # b => raw_jobs[a].link # raw_jobs[b].link
        /\ FirstWins

\* C1 amended: the dedup keys (link, or title when the link is empty) of the
\* output are pairwise unique, so the non-empty link values are, and of the
\* records colliding on the dedup key the first one supplied survives
C1_KeysUnique ==
    Collected =>
        /\ \A a, b \in 1..Len(raw_jobs) :
              a # b => DedupKey(raw_jobs[a]) # DedupKey(raw_jobs[b])
        /\ \A a, b \in 1..Len(raw_jobs) :
              (a # b /\ raw_jobs[a].link \notin {None, <<>>})
                  => raw_jobs[a].link # raw_jobs[b].link
        /\ FirstWins

\* two different records with the same link were supplied and merged
C1_Witness ==
    /\ Collected
    /\ \E a, b \in 1..Len(jobs) :
          /\ a < b
          /\ jobs[a] # jobs[b]
          /\ jobs[a].link = jobs[b].link
          /\ jobs[a].link \notin {None, <<>>}

\* C2: a record with no link and no title is never in the output of
\* collect_jobs, and every record with a key not seen earlier is
C2_EmptyKeyDropped ==
    Collected =>
        /\ \A a \in 1..Len(raw_jobs) :
              ~(raw_jobs[a].link \in {None, <<>>} /\ raw_jobs[a].title \in {None, <<>>})
        /\ \A k \in 1..Len(jobs) :
              (/\ DedupKey(jobs[k]) # <<>>
               /\ \A b \in 1..(k - 1) : DedupKey(jobs[b]) # DedupKey(jobs[k]))
                  => InSeq(jobs[k], raw_jobs)

\* a record without link and title, but with a location, was supplied before
\* a record that survived
C2_Witness ==
    /\ Collected
    /\ Len(jobs) >= 2
    /\ DedupKey(jobs[1]) = <<>>
    /\ jobs[1].location # <<>>
    /\ raw_jobs # <<>>

\* C3 as stated: an invocation that caught a failure returns no records, and
\* every invocation has run when the collection goes on
C3_AsStated ==
    /\ (pc = "return" /\ failed) => results = <<>>
    /\ (pc = "dedup" \/ Collected) => AllRan

\* C10 as stated: an invocation returns only after the pause that follows its
\* network call, also when the call failed, and the dedup dict is filled only
\* after all invocations
C10_AsStated ==
    /\ pc = "return" => (calls = 1 /\ slept)
    /\ uniq # <<>> => AllRan

\* C5 as stated: when delivery failed the digest is in jobs_output.html at the
\* end of the run, and the run never ends with an uncaught exception
C5_AsStated ==
    /\ (pc = "done" /\ ~sent) => file = html_body
    /\ pc # "crashed"

\* C4: every run of main calls build_email_html, exactly once, after the
\* collection and the filter, every invocation having issued at most one
\* network call; with no match the document is the "no results" one
C4_AlwaysRenders ==
    /\ <>(renders = 1)
    /\ [](renders <= 1)
    /\ [](renders = 1 => (AllRan /\ pc \in {"send", "fallback", "done", "crashed"}))
    /\ [](renders = 0 => pc \notin {"send", "fallback", "done", "crashed"})
    /\ [](calls <= 1)
    /\ []((renders = 1 /\ filtered = <<>>) => html_body = NoResults)

\* every invocation failed and the "no results" document was rendered
C4_Witness ==
    /\ pc = "done"
    /\ allfailed
    /\ jobs = <<>>
    /\ renders = 1
    /\ html_body = NoResults

====
